---- MODULE Spec2Model ----
(***************************************************************************)
(* Model of ado_batch_creator (src/main.go, src/models/task.go): main      *)
(* reads the configuration and the items file, then for every user story   *)
(* calls createUserStory, which posts the story to Azure DevOps, reads the *)
(* new work item id from the response and calls createTask for each task.  *)
(*                                                                         *)
(* The program is one goroutine.  The model follows it from one blocking   *)
(* point to the next: a step either ends at client.Do (the request is in   *)
(* flight) or at the return of the call.  The remote service is the        *)
(* environment: every response is a nondeterministic choice.               *)
(*                                                                         *)
(* Strings built with fmt.Sprintf are tuples of their parts.  A JSON       *)
(* number is an integer count of tenths (1005 is 100.5), so that the       *)
(* float64 -> int conversion of the code is a real truncation.             *)
(***************************************************************************)
EXTENDS Integers, Sequences, FiniteSets, TLC

\* Bounds of the model: the user stories of the items file, and the tasks
\* of all its user stories together.
MaxStories == 2
MaxTasks == 3

\* net/http status codes the code compares with (src/main.go:152, 269).
StatusOK == 200
StatusCreated == 201

VARIABLES
    pc,           \* position of main: start, loop, us_wait, tasks, task_wait, done, exit, panic
    crash,        \* source line of the panic or Fatalf that ended the process, 0 if none
    settings,     \* viper's devops.organization / devops.project / devops.pat
    userStories,  \* main's userStories, decoded from the items file
    i,            \* index of the userStory of main's range loop (1-based)
    j,            \* index of the task of createUserStory's range loop (1-based)
    userStoryID,  \* createUserStory's userStoryID, 0 before it is assigned
    storyIDs,     \* per story: <<userStoryID>> once extracted from its response, <<>> before
    requests,     \* the requests handed to client.Do, in order
    resp,         \* what the last client.Do returned
    err,          \* the error the last create call returned, NoErr while one is running
    returns,      \* the create calls that have returned, in order
    logs          \* the entries written to the logger, in order

vars == <<pc, crash, settings, userStories, i, j, userStoryID, storyIDs,
          requests, resp, err, returns, logs>>

----------------------------------------------------------------------------
\* Records (src/models/task.go).  Field values are strings, modelled as tuples.

\* models.Task at position t of story k.
Task(k, t) ==
    [Name |-> <<"T", k, t>>, Type |-> "Task", Description |-> <<"task desc", k, t>>,
     Owner |-> <<"task owner", k, t>>, State |-> <<"To Do", t>>,
     Priority |-> 10 * k + t, Estimate |-> t]

\* models.UserStory at position k with n tasks.
UserStory(k, n) ==
    [Name |-> <<"US", k>>, Type |-> "User Story", Description |-> <<"story desc", k>>,
     Owner |-> <<"story owner", k>>, State |-> <<"New", k>>, Priority |-> k,
     Area |-> <<"Team", k>>, Path |-> <<"Sprint", k>>,
     Tasks |-> [t \in 1..n |-> Task(k, t)], Iteraction |-> <<>>, Team |-> <<"team", k>>]

\* The number of tasks of the first n stories when story k has c[k] tasks.
RECURSIVE TaskCount(_, _)
TaskCount(c, n) == IF n = 0 THEN 0 ELSE c[n] + TaskCount(c, n - 1)

\* The decoded contents of the items file: up to MaxStories stories with up to
\* MaxTasks tasks between them.
Inputs ==
    UNION { { [k \in 1..n |-> UserStory(k, c[k])] :
                c \in {d \in [1..n -> 0..MaxTasks] : TaskCount(d, n) <= MaxTasks} }
            : n \in 0..MaxStories }

\* models.AdoSettings as viper holds it.  "bad\n" stands for a value that
\* net/url cannot parse (a control character), so that building the request fails.
Organizations == {"", "org", "bad\n"}
Projects == {"", "proj"}
Pats == {"", "pat"}
SettingsSet == [organization : Organizations, project : Projects, pat : Pats]
NoSettings == [organization |-> "", project |-> "", pat |-> ""]

----------------------------------------------------------------------------
\* Errors: the format string of fmt.Errorf names the step; status and
\* message are the values formatted into it.

NoErr == [step |-> "nil", status |-> 0, message |-> ""]
ErrConfig == [step |-> "missing Azure DevOps configuration", status |-> 0, message |-> ""]
ErrBuild == [step |-> "failed to create request", status |-> 0, message |-> ""]
ErrSend == [step |-> "failed to send request", status |-> 0, message |-> ""]
ErrParse == [step |-> "failed to parse response", status |-> 0, message |-> ""]
ErrUserStoryStatus(status, message) ==
    [step |-> "failed to create user story", status |-> status, message |-> message]
ErrTaskStatus(status) ==
    [step |-> "failed to create task", status |-> status, message |-> ""]

----------------------------------------------------------------------------
\* Responses of the remote service.

\* A JSON value of a decoded map[string]interface{}: absent, a number
\* (float64, in tenths) or a string.
Absent == [t |-> "absent", n |-> 0, s |-> ""]
Num(x) == [t |-> "num", n |-> x, s |-> ""]
Str(x) == [t |-> "str", n |-> 0, s |-> x]

\* A response body: whether json.Decode into a map succeeds, and the fields read.
Garbage == [decodable |-> FALSE, id |-> Absent, message |-> Absent]
Object(id, message) == [decodable |-> TRUE, id |-> id, message |-> message]
Bodies ==
    {Garbage, Object(Absent, Absent),
     Object(Num(1000), Absent), Object(Num(2015), Absent), Object(Str("100"), Absent),
     Object(Absent, Str("denied"))}

Statuses == {StatusOK, StatusCreated, 204, 401}

\* What client.Do returns: a transport error, or a response.
NoResp == [sent |-> FALSE, transport |-> FALSE, status |-> 0, body |-> Garbage]
TransportError == [sent |-> TRUE, transport |-> TRUE, status |-> 0, body |-> Garbage]
Response(status, body) ==
    [sent |-> TRUE, transport |-> FALSE, status |-> status, body |-> body]
Responses == {TransportError} \cup {Response(s, b) : s \in Statuses, b \in Bodies}

\* createTask never reads the body of its response (src/main.go:262-274): two
\* bodies stand for all of them.
TaskBodies == {Garbage, Object(Absent, Str("denied"))}
TaskResponses == {TransportError} \cup {Response(s, b) : s \in Statuses, b \in TaskBodies}

----------------------------------------------------------------------------
\* createUserStory, up to client.Do (src/main.go:71-148).

\* Variant: the check forgets the PAT.
usConfigMissingNoPat(s) == s.organization = "" \/ s.project = ""

\* The configuration check of createUserStory.
usConfigMissing(s) == s.organization = "" \/ s.project = "" \/ s.pat = ""

\* The configuration check of createTask.
taskConfigMissing(s) == s.organization = "" \/ s.project = "" \/ s.pat = ""

\* http.NewRequestWithContext parses the URL and fails on one it cannot parse.
urlParses(url) == \A k \in 1..Len(url) : url[k] # "bad\n"

userStoryURL(s) ==
    <<"https://dev.azure.com/", s.organization, "/", s.project,
      "/_apis/wit/workitems/$User%20Story?api-version=7.0">>

taskURL(s) ==
    <<"https://dev.azure.com/", s.organization, "/", s.project,
      "/_apis/wit/workitems/$Task?api-version=7.0">>

\* One operation of the JSON patch document.
Add(path, value) == [op |-> "add", path |-> path, value |-> value]

\* Variant: the description and the owner go into each other's operation.
userStoryPayloadSwapsOwner(userStory) ==
    << Add("/fields/System.Title", userStory.Name),
       Add("/fields/System.Description", userStory.Owner),
       Add("/fields/System.AssignedTo", userStory.Description),
       Add("/fields/Microsoft.VSTS.Common.Priority", userStory.Priority),
       Add("/fields/System.State", userStory.State),
       Add("/fields/System.Tags", "system_automated"),
       Add("/fields/System.AreaPath", userStory.Area) >>

\* The payload of createUserStory.
userStoryPayload(userStory) ==
    << Add("/fields/System.Title", userStory.Name),
       Add("/fields/System.Description", userStory.Description),
       Add("/fields/System.AssignedTo", userStory.Owner),
       Add("/fields/Microsoft.VSTS.Common.Priority", userStory.Priority),
       Add("/fields/System.State", userStory.State),
       Add("/fields/System.Tags", "system_automated"),
       Add("/fields/System.AreaPath", userStory.Area) >>

\* The URL of the parent work item in the relation of a task.
parentURL(organization, parentID) ==
    <<"https://dev.azure.com/", organization, "/_apis/wit/workItems/", parentID>>

\* Variant: the relation is formatted with the task's priority instead of parentID.
taskPayloadWrongID(organization, parentID, task, userStory) ==
    << Add("/fields/System.Title", task.Name),
       Add("/fields/System.Description", task.Description),
       Add("/fields/System.AssignedTo", task.Owner),
       Add("/fields/Microsoft.VSTS.Common.Priority", task.Priority),
       Add("/fields/System.State", task.State),
       Add("/relations/-",
           [rel |-> "System.LinkTypes.Hierarchy-Reverse",
            url |-> parentURL(organization, task.Priority),
            attributes |-> [comment |-> "Linking task to user story"]]),
       Add("/fields/System.AreaPath", userStory.Area) >>

\* Variant: the area path is taken from the task record (its state) instead of
\* the user story.
taskPayloadOwnArea(organization, parentID, task, userStory) ==
    << Add("/fields/System.Title", task.Name),
       Add("/fields/System.Description", task.Description),
       Add("/fields/System.AssignedTo", task.Owner),
       Add("/fields/Microsoft.VSTS.Common.Priority", task.Priority),
       Add("/fields/System.State", task.State),
       Add("/relations/-",
           [rel |-> "System.LinkTypes.Hierarchy-Reverse",
            url |-> parentURL(organization, parentID),
            attributes |-> [comment |-> "Linking task to user story"]]),
       Add("/fields/System.AreaPath", task.State) >>

\* The payload of createTask.
taskPayload(organization, parentID, task, userStory) ==
    << Add("/fields/System.Title", task.Name),
       Add("/fields/System.Description", task.Description),
       Add("/fields/System.AssignedTo", task.Owner),
       Add("/fields/Microsoft.VSTS.Common.Priority", task.Priority),
       Add("/fields/System.State", task.State),
       Add("/relations/-",
           [rel |-> "System.LinkTypes.Hierarchy-Reverse",
            url |-> parentURL(organization, parentID),
            attributes |-> [comment |-> "Linking task to user story"]]),
       Add("/fields/System.AreaPath", userStory.Area) >>

\* The request handed to client.Do.  us and task say which record it was
\* built for (task is 0 for a user story).
Request(kind, us, task, url, pat, payload) ==
    [kind |-> kind, us |-> us, task |-> task, method |-> "POST", url |-> url,
     contentType |-> "application/json-patch+json", username |-> "", password |-> pat,
     payload |-> payload]

\* The error createUserStory returns before it sends anything, NoErr if it
\* reaches client.Do.
createUserStoryBegin(s) ==
    IF usConfigMissing(s) THEN ErrConfig
    ELSE IF ~urlParses(userStoryURL(s)) THEN ErrBuild
    ELSE NoErr

\* The same for createTask.
createTaskBegin(s) ==
    IF taskConfigMissing(s) THEN ErrConfig
    ELSE IF ~urlParses(taskURL(s)) THEN ErrBuild
    ELSE NoErr

----------------------------------------------------------------------------
\* createUserStory and createTask, from the return of client.Do.

\* resp.StatusCode != http.StatusOK && resp.StatusCode != http.StatusCreated
usStatusFailed(status) == status # StatusOK /\ status # StatusCreated
taskStatusFailed(status) == status # StatusOK /\ status # StatusCreated

\* int(x) of a float64: truncation toward zero.
toInt(n) == IF n >= 0 THEN n \div 10 ELSE -((-n) \div 10)

\* v.(float64) and v.(string) in their one-value form panic unless v holds that type.
isFloat64(v) == v.t = "num"
isString(v) == v.t = "str"

\* What createUserStory does with what client.Do returned:
\*   kind    "error" (it returns err), "panic" (a type assertion fails at line),
\*           or "created" (it goes on to the tasks with userStoryID = id);
\*   logged  whether "User story created successfully" was logged on the way.
Outcome(kind, e, line, id, logged) ==
    [kind |-> kind, err |-> e, line |-> line, id |-> id, logged |-> logged]

\* Variant: the status of the response is not checked.
userStoryOutcomeNoStatusCheck(r) ==
    IF r.transport THEN Outcome("error", ErrSend, 0, 0, FALSE)
    ELSE IF ~r.body.decodable THEN Outcome("error", ErrParse, 0, 0, TRUE)
    ELSE IF ~isFloat64(r.body.id) THEN Outcome("panic", NoErr, 168, 0, TRUE)
    ELSE Outcome("created", NoErr, 0, toInt(r.body.id.n), TRUE)

\* Variant: the error of decoding the body of a successful response is dropped,
\* and the tasks are created under the zero id.
userStoryOutcomeNoDecodeCheck(r) ==
    IF r.transport THEN Outcome("error", ErrSend, 0, 0, FALSE)
    ELSE IF usStatusFailed(r.status) THEN
        IF ~r.body.decodable THEN Outcome("error", ErrParse, 0, 0, FALSE)
        ELSE IF ~isString(r.body.message) THEN Outcome("panic", NoErr, 158, 0, FALSE)
        ELSE Outcome("error", ErrUserStoryStatus(r.status, r.body.message.s), 0, 0, FALSE)
    ELSE IF ~r.body.decodable THEN Outcome("created", NoErr, 0, 0, TRUE)
    ELSE IF ~isFloat64(r.body.id) THEN Outcome("panic", NoErr, 168, 0, TRUE)
    ELSE Outcome("created", NoErr, 0, toInt(r.body.id.n), TRUE)

userStoryOutcome(r) ==
    IF r.transport THEN Outcome("error", ErrSend, 0, 0, FALSE)
    ELSE IF usStatusFailed(r.status) THEN
        IF ~r.body.decodable THEN Outcome("error", ErrParse, 0, 0, FALSE)
        ELSE IF ~isString(r.body.message) THEN Outcome("panic", NoErr, 158, 0, FALSE)
        ELSE Outcome("error", ErrUserStoryStatus(r.status, r.body.message.s), 0, 0, FALSE)
    ELSE IF ~r.body.decodable THEN Outcome("error", ErrParse, 0, 0, TRUE)
    ELSE IF ~isFloat64(r.body.id) THEN Outcome("panic", NoErr, 168, 0, TRUE)
    ELSE Outcome("created", NoErr, 0, toInt(r.body.id.n), TRUE)

\* Variant: createTask reports an error of client.Do as a status failure.
taskOutcomeSendAsStatus(r) ==
    IF r.transport THEN Outcome("error", ErrTaskStatus(r.status), 0, 0, FALSE)
    ELSE IF taskStatusFailed(r.status) THEN Outcome("error", ErrTaskStatus(r.status), 0, 0, FALSE)
    ELSE Outcome("created", NoErr, 0, 0, TRUE)

\* What createTask does with what client.Do returned: it never reads the body.
taskOutcome(r) ==
    IF r.transport THEN Outcome("error", ErrSend, 0, 0, FALSE)
    ELSE IF taskStatusFailed(r.status) THEN Outcome("error", ErrTaskStatus(r.status), 0, 0, FALSE)
    ELSE Outcome("created", NoErr, 0, 0, TRUE)

\* The range loops: an error is logged and the loop goes on with the next element.
\* n is the length of the slice, k the current index, e the error of the call.
\* Variant: main calls createUserStory again for a user story that failed.
mainLoopRetriesOnError(n, k, e) == IF e # NoErr THEN k ELSE k + 1

mainLoopNext(n, k, e) == k + 1

\* What createUserStory returns after its range loop, where e is the error of
\* its last createTask call (NoErr if there was none).
\* Variant: it returns the error of the last task.
userStoryResultLastTaskErr(e) == e

userStoryResult(e) == NoErr

\* Variant: createUserStory calls createTask again for a task that failed.
taskLoopRepeatsOnError(n, k, e) == IF e # NoErr THEN k ELSE k + 1

\* Variant: createUserStory returns at the first task that fails.
taskLoopStopsOnError(n, k, e) == IF e # NoErr THEN n + 1 ELSE k + 1

taskLoopNext(n, k, e) == k + 1

----------------------------------------------------------------------------
\* The logger (zap, production configuration: Debug entries are dropped).
\* An entry keeps its level, message and name field; the error field of an
\* error entry is the value of err at that step.  args are the values
\* formatted into the message.

Log(level, msg, name, args) == [level |-> level, msg |-> msg, name |-> name, args |-> args]

\* Variant: the summary counts the tasks of the items file.
summaryArgsCountsTasks(stories) ==
    << Len(stories),
       Cardinality(UNION { {<<k, t>> : t \in 1..Len(stories[k].Tasks)} :
                           k \in 1..Len(stories) }) >>

\* The values main formats into its summary: len(userStories) and a literal 0.
summaryArgs(stories) == <<Len(stories), 0>>

\* A create call that has returned.
Return(kind, us, task, e) == [kind |-> kind, us |-> us, task |-> task, failed |-> e # NoErr]

----------------------------------------------------------------------------
\* The program.

Init ==
    /\ pc = "start"
    /\ crash = 0
    /\ settings = NoSettings
    /\ userStories = <<>>
    /\ i = 0
    /\ j = 0
    /\ userStoryID = 0
    /\ storyIDs = <<>>
    /\ requests = <<>>
    /\ resp = NoResp
    /\ err = NoErr
    /\ returns = <<>>
    /\ logs = <<>>

\* main, lines 16-58, when viper.ReadInConfig fails: it logs and panics.
ConfigUnreadable ==
    /\ pc = "start"
    /\ pc' = "panic"
    /\ crash' = 36
    /\ logs' = Append(logs, Log("warn", "Failed to read config file", <<>>, <<>>))
    /\ UNCHANGED <<settings, userStories, i, j, userStoryID, storyIDs, requests, resp,
                   err, returns>>

\* main when os.ReadFile fails: Fatalf logs and exits.
ItemsUnreadable ==
    /\ pc = "start"
    /\ pc' = "exit"
    /\ crash' = 44
    /\ logs' = logs \o << Log("info", "Config file loaded successfully", <<>>, <<>>),
                          Log("fatal", "Failed to read items file in location %s", <<>>, <<>>) >>
    /\ UNCHANGED <<settings, userStories, i, j, userStoryID, storyIDs, requests, resp,
                   err, returns>>

\* main when json.Unmarshal fails: Panicf logs and panics.
ItemsUndecodable ==
    /\ pc = "start"
    /\ pc' = "panic"
    /\ crash' = 48
    /\ logs' = logs \o << Log("info", "Config file loaded successfully", <<>>, <<>>),
                          Log("panic", "failed to decode file with error: %w", <<>>, <<>>) >>
    /\ UNCHANGED <<settings, userStories, i, j, userStoryID, storyIDs, requests, resp,
                   err, returns>>

\* main up to its range loop: the configuration and the items are loaded,
\* whatever the devops settings are.
Startup ==
    /\ pc = "start"
    /\ \E s \in SettingsSet, items \in Inputs :
          /\ settings' = s
          /\ userStories' = items
          /\ storyIDs' = [k \in 1..Len(items) |-> <<>>]
    /\ i' = 1
    /\ pc' = "loop"
    /\ logs' = logs \o << Log("info", "Config file loaded successfully", <<>>, <<>>),
                          Log("info", "Application Name", <<>>, <<>>) >>
    /\ UNCHANGED <<crash, j, userStoryID, requests, resp, err, returns>>

\* main calls createUserStory for userStories[i]; createUserStory runs up to
\* client.Do, or returns the error of an earlier step, which main logs.
StartUserStory ==
    /\ pc = "loop"
    /\ i <= Len(userStories)
    /\ LET userStory == userStories[i]
           e == createUserStoryBegin(settings)
       IN  IF e # NoErr
           THEN /\ err' = e
                /\ returns' = Append(returns, Return("User Story", i, 0, e))
                /\ logs' = Append(logs, Log("error", "Failed to create user story",
                                            userStory.Name, <<>>))
                /\ i' = mainLoopNext(Len(userStories), i, e)
                /\ UNCHANGED <<pc, requests>>
           ELSE /\ requests' = Append(requests,
                                  Request("User Story", i, 0, userStoryURL(settings),
                                          settings.pat, userStoryPayload(userStory)))
                /\ pc' = "us_wait"
                /\ err' = NoErr
                /\ UNCHANGED <<returns, logs, i>>
    /\ userStoryID' = 0
    /\ j' = 0
    /\ resp' = NoResp
    /\ UNCHANGED <<crash, settings, userStories, storyIDs>>

\* client.Do returns in createUserStory; the rest of createUserStory up to
\* its range loop, or to its return and main's log of the error.
UserStoryResponse ==
    /\ pc = "us_wait"
    /\ \E r \in Responses :
        LET userStory == userStories[i]
            o == userStoryOutcome(r)
            created == IF o.logged
                       THEN << Log("info", "User story created successfully",
                                   userStory.Name, <<>>) >>
                       ELSE << >>
        IN  /\ resp' = r
            /\ CASE o.kind = "panic" ->
                      /\ pc' = "panic"
                      /\ crash' = o.line
                      /\ logs' = logs \o created
                      /\ UNCHANGED <<i, j, userStoryID, storyIDs, err, returns>>
                 [] o.kind = "error" ->
                      /\ err' = o.err
                      /\ returns' = Append(returns, Return("User Story", i, 0, o.err))
                      /\ logs' = logs \o created \o
                                 << Log("error", "Failed to create user story",
                                        userStory.Name, <<>>) >>
                      /\ i' = mainLoopNext(Len(userStories), i, o.err)
                      /\ pc' = "loop"
                      /\ UNCHANGED <<crash, j, userStoryID, storyIDs>>
                 [] o.kind = "created" ->
                      /\ userStoryID' = o.id
                      /\ storyIDs' = [storyIDs EXCEPT ![i] = <<o.id>>]
                      /\ logs' = logs \o created
                      /\ j' = 1
                      /\ pc' = "tasks"
                      /\ UNCHANGED <<crash, i, err, returns>>
    /\ UNCHANGED <<settings, userStories, requests>>

\* createUserStory calls createTask for userStory.Tasks[j]; createTask runs up
\* to client.Do, or returns the error of an earlier step, which createUserStory logs.
StartTask ==
    /\ pc = "tasks"
    /\ j <= Len(userStories[i].Tasks)
    /\ LET userStory == userStories[i]
           task == userStory.Tasks[j]
           e == createTaskBegin(settings)
       IN  IF e # NoErr
           THEN /\ err' = e
                /\ returns' = Append(returns, Return("Task", i, j, e))
                /\ logs' = Append(logs, Log("error", "Failed to create task", task.Name, <<>>))
                /\ j' = taskLoopNext(Len(userStory.Tasks), j, e)
                /\ UNCHANGED <<pc, requests>>
           ELSE /\ requests' = Append(requests,
                                  Request("Task", i, j, taskURL(settings), settings.pat,
                                          taskPayload(settings.organization, userStoryID,
                                                      task, userStory)))
                /\ pc' = "task_wait"
                /\ err' = NoErr
                /\ UNCHANGED <<returns, logs, j>>
    /\ resp' = NoResp
    /\ UNCHANGED <<crash, settings, userStories, i, userStoryID, storyIDs>>

\* client.Do returns in createTask; createTask returns and createUserStory
\* logs its error, if any.
TaskResponse ==
    /\ pc = "task_wait"
    /\ \E r \in TaskResponses :
        LET userStory == userStories[i]
            task == userStory.Tasks[j]
            o == taskOutcome(r)
        IN  /\ resp' = r
            /\ err' = o.err
            /\ returns' = Append(returns, Return("Task", i, j, o.err))
            /\ logs' = Append(logs,
                              IF o.kind = "created"
                              THEN Log("info", "Task created successfully", task.Name, <<>>)
                              ELSE Log("error", "Failed to create task", task.Name, <<>>))
            /\ j' = taskLoopNext(Len(userStory.Tasks), j, o.err)
    /\ pc' = "tasks"
    /\ UNCHANGED <<crash, settings, userStories, i, userStoryID, storyIDs, requests>>

\* The range loop of createUserStory is over: it returns, main logs the error
\* if there is one and goes on.
FinishUserStory ==
    /\ pc = "tasks"
    /\ j > Len(userStories[i].Tasks)
    /\ LET e == userStoryResult(err)
       IN  /\ err' = e
           /\ returns' = Append(returns, Return("User Story", i, 0, e))
           /\ logs' = IF e # NoErr
                      THEN Append(logs, Log("error", "Failed to create user story",
                                            userStories[i].Name, <<>>))
                      ELSE logs
           /\ i' = mainLoopNext(Len(userStories), i, e)
    /\ pc' = "loop"
    /\ resp' = NoResp
    /\ UNCHANGED <<crash, settings, userStories, j, userStoryID, storyIDs, requests>>

\* The range loop of main is over: it logs the summary and returns.
FinishJob ==
    /\ pc = "loop"
    /\ i > Len(userStories)
    /\ logs' = Append(logs, Log("info", "Finish Job. Created: %d US and %d Tasks", <<>>,
                                summaryArgs(userStories)))
    /\ pc' = "done"
    /\ UNCHANGED <<crash, settings, userStories, i, j, userStoryID, storyIDs, requests,
                   resp, err, returns>>

Next ==
    \/ ConfigUnreadable
    \/ ItemsUnreadable
    \/ ItemsUndecodable
    \/ Startup
    \/ StartUserStory
    \/ UserStoryResponse
    \/ StartTask
    \/ TaskResponse
    \/ FinishUserStory
    \/ FinishJob

Spec == Init /\ [][Next]_vars

----------------------------------------------------------------------------
\* Vocabulary of the properties.

Stories == 1..Len(userStories)
TasksOf(k) == 1..Len(userStories[k].Tasks)

\* The requests sent for story k itself, and for its task t.
ParentRequests(k) ==
    {n \in 1..Len(requests) : requests[n].kind = "User Story" /\ requests[n].us = k}
TaskRequests(k, t) ==
    {n \in 1..Len(requests) :
        requests[n].kind = "Task" /\ requests[n].us = k /\ requests[n].task = t}
ChildRequests(k) ==
    {n \in 1..Len(requests) : requests[n].kind = "Task" /\ requests[n].us = k}

\* The createTask calls of story k that have returned.
ChildReturns(k) ==
    {n \in 1..Len(returns) : returns[n].kind = "Task" /\ returns[n].us = k}

\* The createTask calls of task t of story k that have returned.
TaskReturns(k, t) ==
    {n \in 1..Len(returns) :
        returns[n].kind = "Task" /\ returns[n].us = k /\ returns[n].task = t}

\* createUserStory has returned an error for story k.
StoryFailed(k) ==
    \E n \in 1..Len(returns) :
        returns[n].kind = "User Story" /\ returns[n].us = k /\ returns[n].failed

\* createTask has returned an error for task t of story k.
TaskFailed(k, t) ==
    \E n \in 1..Len(returns) :
        /\ returns[n].kind = "Task" /\ returns[n].us = k /\ returns[n].task = t
        /\ returns[n].failed

\* resp is the answer to the request of a user story / of a task.
ParentAnswered ==
    resp.sent /\ requests # <<>> /\ requests[Len(requests)].kind = "User Story"
ChildAnswered ==
    resp.sent /\ requests # <<>> /\ requests[Len(requests)].kind = "Task"
AnsweredStory == requests[Len(requests)].us
AnsweredTask == requests[Len(requests)].task

\* The logger holds the success entry msg for the record called name.
SuccessLogged(msg, name) ==
    \E n \in 1..Len(logs) :
        logs[n].level = "info" /\ logs[n].msg = msg /\ logs[n].name = name

\* The three ways a create call fails at the remote side.
SuccessStatus(status) == status \in {200, 201}
RemoteFailure(r) == r.transport \/ ~SuccessStatus(r.status) \/ ~r.body.decodable

\* One of organization, project, credential is empty.
SettingsIncomplete(s) == s.organization = "" \/ s.project = "" \/ s.pat = ""

\* The link operations of a payload.
Links(payload) == {m \in 1..Len(payload) : payload[m].path = "/relations/-"}

----------------------------------------------------------------------------
\* C1: when the create call of a parent fails (transport error, status other
\* than 200/201, undecodable body: createUserStory returns an error), no
\* createTask call is made and no child request is sent for that parent.
C1_NoChildrenOfFailedParent ==
    /\ \A k \in Stories :
          StoryFailed(k) => ChildRequests(k) = {} /\ ChildReturns(k) = {}
    /\ (ParentAnswered /\ RemoteFailure(resp)) =>
          /\ pc \notin {"tasks", "task_wait"}
          /\ ChildRequests(AnsweredStory) = {}
          /\ pc # "panic" => StoryFailed(AnsweredStory)

\* A parent with tasks failed at the remote side, and the run went on to create
\* the tasks of another parent.
C1_Witness ==
    /\ pc = "done"
    /\ \E k \in Stories :
          /\ StoryFailed(k) /\ TasksOf(k) # {} /\ ParentRequests(k) # {}
          /\ \E k2 \in Stories : ChildRequests(k2) # {}

\* C2: once createUserStory is through with a parent whose creation succeeded,
\* exactly one request has been sent for each of its tasks, whatever the other
\* tasks' calls returned; no task ever has two.
C2_EveryChildOnce ==
    \A k \in Stories :
        /\ \A t \in TasksOf(k) : Cardinality(TaskRequests(k, t)) <= 1
        /\ (k < i /\ storyIDs[k] # <<>>) =>
              \A t \in TasksOf(k) :
                  /\ Cardinality(TaskRequests(k, t)) = 1
                  /\ Cardinality(TaskReturns(k, t)) = 1

\* The first task of a created parent failed and the second was still sent.
C2_Witness ==
    \E k \in Stories :
        /\ k < i /\ storyIDs[k] # <<>>
        /\ Len(userStories[k].Tasks) >= 2
        /\ TaskFailed(k, 1)
        /\ TaskRequests(k, 2) # {}

\* C3: no outcome of a create call aborts the run: whatever client.Do returned,
\* the failure stays with that record and main goes on to the next record and
\* to the summary.
C3_FailureIsolation ==
    /\ resp.sent => pc # "panic"
    /\ pc = "done" =>
          \A k \in Stories :
              \E n \in 1..Len(returns) :
                  returns[n].kind = "User Story" /\ returns[n].us = k

\* C4: every child request has exactly one hierarchy link, and the id in its
\* URL is the id extracted from the response to that child's own parent.
C4_LinkToOwnParent ==
    \A n \in 1..Len(requests) :
        requests[n].kind = "Task" =>
            LET p == requests[n].payload
                k == requests[n].us
            IN  /\ Cardinality(Links(p)) = 1
                /\ storyIDs[k] # <<>>
                /\ \A m \in Links(p) :
                      /\ p[m].value.rel = "System.LinkTypes.Hierarchy-Reverse"
                      /\ Len(p[m].value.url) = 4
                      /\ p[m].value.url[2] = settings.organization
                      /\ p[m].value.url[4] = storyIDs[k][1]

\* Two parents got different ids and each had a child request sent.
C4_Witness ==
    \E k1, k2 \in Stories :
        /\ storyIDs[k1] # <<>> /\ storyIDs[k2] # <<>>
        /\ storyIDs[k1] # storyIDs[k2]
        /\ ChildRequests(k1) # {} /\ ChildRequests(k2) # {}

\* C5: a child request is submitted only when its parent's request has been
\* answered with success and the id has been extracted from that answer; none
\* is submitted while the parent's request is in flight.
C5_ParentBeforeChildren ==
    [][ (Len(requests') > Len(requests) /\ requests'[Len(requests')].kind = "Task") =>
            LET k == requests'[Len(requests')].us
                t == requests'[Len(requests')].task
            IN  /\ pc = "tasks"
                /\ ParentRequests(k) # {}
                /\ storyIDs[k] # <<>>
                /\ userStoryID = storyIDs[k][1]
                /\ t = 1 => /\ ParentAnswered
                            /\ ~RemoteFailure(resp)
                            /\ resp.body.id.t = "num"
      ]_vars

\* A child request is in flight, its parent's id known.
C5_Witness ==
    /\ pc = "task_wait"
    /\ storyIDs[i] # <<>>
    /\ TaskRequests(i, j) # {}

\* C6: with an empty organization, project or credential every create call
\* returns the configuration error and no request is ever sent.
C6_NoCallWithoutSettings ==
    /\ \A s \in SettingsSet :
          SettingsIncomplete(s) =>
              createUserStoryBegin(s) = ErrConfig /\ createTaskBegin(s) = ErrConfig
    /\ (pc # "start" /\ SettingsIncomplete(settings)) =>
          /\ requests = <<>>
          /\ ~resp.sent
          /\ \A n \in 1..Len(returns) : returns[n].failed
          /\ returns # <<>> => err = ErrConfig

\* A run over two records with incomplete settings reached its end.
C6_Witness ==
    /\ pc = "done"
    /\ SettingsIncomplete(settings)
    /\ settings.organization # ""
    /\ Len(userStories) >= 2
    /\ Len(returns) = Len(userStories)

\* C7: with an empty organization, project or credential the run aborts before
\* any record is processed: no create call returns a per-record error and the
\* summary is never reached.
C7_MissingSettingsAreFatal ==
    (pc # "start" /\ SettingsIncomplete(settings)) =>
        /\ returns = <<>>
        /\ userStories # <<>> => pc # "done"

\* C8: a success status with a decodable body whose id is missing or not a
\* number makes createUserStory return an error: the process does not panic,
\* the record fails and none of its children is attempted.
C8_BadIdIsAnError ==
    (/\ ParentAnswered
     /\ ~resp.transport /\ SuccessStatus(resp.status)
     /\ resp.body.decodable /\ resp.body.id.t # "num") =>
        /\ pc # "panic"
        /\ StoryFailed(AnsweredStory)
        /\ ChildRequests(AnsweredStory) = {}

\* C9: after a status other than 200/201 the returned error carries the
\* message of the body when the body decodes, and the status when it does not.
C9_StatusErrorIsObservable ==
    (resp.sent /\ ~resp.transport /\ ~SuccessStatus(resp.status)) =>
        /\ pc # "panic"
        /\ err # NoErr
        /\ (resp.body.decodable /\ resp.body.message.t = "str") =>
              err.message = resp.body.message.s
        /\ ~resp.body.decodable => err.status = resp.status

\* C10: a status other than 200/201 makes the call return an error, logs no
\* success and, for a parent, attempts no child; 200/201 with a numeric id
\* makes the parent's identifier that id truncated to an integer.
C10_SuccessOnly200Or201 ==
    /\ (resp.sent /\ ~resp.transport /\ ~SuccessStatus(resp.status)) =>
          /\ pc # "panic"
          /\ err # NoErr
          /\ returns # <<>> /\ returns[Len(returns)].failed
          /\ ParentAnswered =>
                /\ ~SuccessLogged("User story created successfully",
                                  userStories[AnsweredStory].Name)
                /\ ChildRequests(AnsweredStory) = {}
          /\ ChildAnswered =>
                ~SuccessLogged("Task created successfully",
                               userStories[AnsweredStory].Tasks[AnsweredTask].Name)
    /\ (/\ ParentAnswered /\ ~resp.transport /\ SuccessStatus(resp.status)
        /\ resp.body.decodable /\ resp.body.id.t = "num") =>
          storyIDs[AnsweredStory] = <<toInt(resp.body.id.n)>>

----------------------------------------------------------------------------
\* The operations of a payload that set the field at path.
FieldOps(payload, path) == {m \in 1..Len(payload) : payload[m].path = path}

\* C11: every create request, for a user story and for a task alike, has the
\* operation that sets System.Tags to "system_automated".
C11_EveryRequestTagged ==
    \A n \in 1..Len(requests) :
        \E m \in FieldOps(requests[n].payload, "/fields/System.Tags") :
            requests[n].payload[m].value = "system_automated"

\* C12: the area path of every task request is the Area of the user story that
\* owns the task, the one whose id is in the request's link.
C12_ChildAreaIsParentArea ==
    \A n \in 1..Len(requests) :
        requests[n].kind = "Task" =>
            LET p == requests[n].payload
                k == requests[n].us
                areas == FieldOps(p, "/fields/System.AreaPath")
            IN  /\ Cardinality(areas) = 1
                /\ \A m \in areas : p[m].value = userStories[k].Area
                /\ \A m \in Links(p) : p[m].value.url[4] = storyIDs[k][1]

\* Two user stories of different areas each had a task request sent.
C12_Witness ==
    \E k1, k2 \in Stories :
        /\ userStories[k1].Area # userStories[k2].Area
        /\ ChildRequests(k1) # {} /\ ChildRequests(k2) # {}
        /\ storyIDs[k1] = storyIDs[k2]

----------------------------------------------------------------------------
\* The settings are complete and give a URL that net/url parses.
SettingsUsable(s) == ~SettingsIncomplete(s) /\ s.organization # "bad\n"

\* The tasks of the user stories whose creation succeeded.
ChildrenOfCreated ==
    UNION { {<<k, t>> : t \in TasksOf(k)} : k \in {c \in Stories : storyIDs[c] # <<>>} }

----------------------------------------------------------------------------
\* The summary entries of the log.
Summaries ==
    {n \in 1..Len(logs) : logs[n].msg = "Finish Job. Created: %d US and %d Tasks"}

\* The user stories whose creation succeeded, and the createTask calls that
\* returned no error.
CreatedStories == {k \in Stories : storyIDs[k] # <<>>}
CreatedTasks ==
    {n \in 1..Len(returns) : returns[n].kind = "Task" /\ ~returns[n].failed}

\* C14: the summary of a finished run reports the number of user stories whose
\* create call succeeded and the number of task create calls that succeeded.
C14_SummaryCountsAreReal ==
    pc = "done" =>
        logs[Len(logs)].args = <<Cardinality(CreatedStories), Cardinality(CreatedTasks)>>

\* C18: a finished run has logged one summary, as its last entry; its task
\* figure is 0 and its user story figure is the number of input records,
\* whatever was created.  No summary is logged before the run is finished.
C18_SummaryIsRecordsAndZero ==
    /\ pc = "done" =>
          /\ Cardinality(Summaries) = 1
          /\ Len(logs) \in Summaries
          /\ logs[Len(logs)].level = "info"
          /\ logs[Len(logs)].args = <<Len(userStories), 0>>
    /\ pc # "done" => Summaries = {}

\* A finished run in which one user story failed and a task of another was created.
C18_Witness ==
    /\ pc = "done"
    /\ \E k \in Stories : StoryFailed(k)
    /\ CreatedTasks # {}

----------------------------------------------------------------------------
\* The field mapping on its own: createUserStory and createTask build their
\* payloads from records whose field values are drawn from sets.

\* Values of the string fields (the empty string, a plain one, one with
\* characters JSON escapes) and of the int field Priority.
FieldTexts == {<<>>, <<"a">>, <<"<b>", "\"c\"">>}
FieldPriorities == {0, 2}

\* The userStoryID values createTask is called with.
ParentIDs == {7, 100}

\* models.Task with the given field values.
TaskRecords ==
    { [Name |-> n, Type |-> "Task", Description |-> d, Owner |-> o, State |-> s,
       Priority |-> p, Estimate |-> 1] :
      n \in FieldTexts, d \in FieldTexts, o \in FieldTexts, s \in FieldTexts,
      p \in FieldPriorities }

\* models.UserStory with the given field values and one task.
UserStoryRecords ==
    { [Name |-> n, Type |-> "User Story", Description |-> d, Owner |-> o, State |-> s,
       Priority |-> p, Area |-> <<"Team">>, Path |-> <<"Sprint">>,
       Tasks |-> <<task>>, Iteraction |-> <<>>, Team |-> <<"team">>] :
      n \in FieldTexts, d \in FieldTexts, o \in FieldTexts, s \in FieldTexts,
      p \in FieldPriorities, task \in TaskRecords }

\* Complete settings.
MapperSettings == [organization |-> "org", project |-> "proj", pat |-> "pat"]

MapperInit ==
    /\ pc = "map"
    /\ crash = 0
    /\ settings = MapperSettings
    /\ userStories \in {<<userStory>> : userStory \in UserStoryRecords}
    /\ i = 1
    /\ j = 0
    /\ userStoryID = 0
    /\ storyIDs = <<<<>>>>
    /\ requests = <<>>
    /\ resp = NoResp
    /\ err = NoErr
    /\ returns = <<>>
    /\ logs = <<>>

\* createUserStory, lines 77-141: the request it builds for userStories[i].
MapUserStory ==
    /\ pc = "map"
    /\ createUserStoryBegin(settings) = NoErr
    /\ requests' = Append(requests,
                          Request("User Story", i, 0, userStoryURL(settings), settings.pat,
                                  userStoryPayload(userStories[i])))
    /\ pc' = "map_task"
    /\ UNCHANGED <<crash, settings, userStories, i, j, userStoryID, storyIDs, resp, err,
                   returns, logs>>

\* createTask, lines 187-258: the request it builds for the task of
\* userStories[i], called with some userStoryID.
MapTask ==
    /\ pc = "map_task"
    /\ createTaskBegin(settings) = NoErr
    /\ \E parentID \in ParentIDs :
          /\ userStoryID' = parentID
          /\ storyIDs' = [storyIDs EXCEPT ![i] = <<parentID>>]
          /\ requests' = Append(requests,
                                Request("Task", i, 1, taskURL(settings), settings.pat,
                                        taskPayload(settings.organization, parentID,
                                                    userStories[i].Tasks[1], userStories[i])))
    /\ j' = 1
    /\ pc' = "mapped"
    /\ UNCHANGED <<crash, settings, userStories, i, resp, err, returns, logs>>

MapperNext ==
    \/ MapUserStory
    \/ MapTask

MapperSpec == MapperInit /\ [][MapperNext]_vars

\* The record a request was built for.
RecordOf(request) ==
    IF request.kind = "User Story" THEN userStories[request.us]
    ELSE userStories[request.us].Tasks[request.task]

\* The values the operations of a payload give to a field.
ReadBack(payload, path) == {payload[m].value : m \in FieldOps(payload, path)}

\* C15: in every create request, for a user story and for a task, the title,
\* description, assigned-to, priority and state operations are "add"
\* operations, one per field, whose value is the record's name, description,
\* owner, priority and state: reading the five fields back gives the record's
\* values.
C15_FieldsVerbatim ==
    \A n \in 1..Len(requests) :
        LET payload == requests[n].payload
            record  == RecordOf(requests[n])
        IN  /\ \A m \in 1..Len(payload) : payload[m].op = "add"
            /\ \A path \in {"/fields/System.Title", "/fields/System.Description",
                            "/fields/System.AssignedTo",
                            "/fields/Microsoft.VSTS.Common.Priority",
                            "/fields/System.State"} :
                  Cardinality(FieldOps(payload, path)) = 1
            /\ ReadBack(payload, "/fields/System.Title") = {record.Name}
            /\ ReadBack(payload, "/fields/System.Description") = {record.Description}
            /\ ReadBack(payload, "/fields/System.AssignedTo") = {record.Owner}
            /\ ReadBack(payload, "/fields/Microsoft.VSTS.Common.Priority") = {record.Priority}
            /\ ReadBack(payload, "/fields/System.State") = {record.State}

\* Both requests are built, for a user story and a task that differ in every
\* one of the five fields, with an empty description and an owner that JSON
\* escapes.
C15_Witness ==
    /\ Len(requests) = 2
    /\ requests[1].kind = "User Story"
    /\ requests[2].kind = "Task"
    /\ LET userStory == userStories[1]
           task      == userStories[1].Tasks[1]
       IN  /\ userStory.Name # task.Name
           /\ userStory.Description = <<>>
           /\ task.Description # <<>>
           /\ userStory.Owner = <<"<b>", "\"c\"">>
           /\ task.Owner # userStory.Owner
           /\ userStory.Priority # task.Priority
           /\ userStory.State # task.State
           /\ userStory.Owner # userStory.Description

----------------------------------------------------------------------------
\* The settings are complete and http.NewRequestWithContext rejects the URL.
BuildFails == ~SettingsIncomplete(settings) /\ ~urlParses(userStoryURL(settings))

\* The call for the last request has returned an error to its caller, and the
\* caller's loop is at the next element.
ReturnedAndWentOn ==
    /\ pc \notin {"panic", "exit"}
    /\ returns # <<>>
    /\ returns[Len(returns)] =
          [kind |-> requests[Len(requests)].kind, us |-> AnsweredStory,
           task |-> AnsweredTask, failed |-> TRUE]
    /\ ParentAnswered => pc \in {"loop", "done"} /\ i = AnsweredStory + 1
    /\ ChildAnswered => pc = "tasks" /\ j = AnsweredTask + 1

\* C16: a request that cannot be built, a request that cannot be sent and a
\* response body that cannot be decoded each make the create call return an
\* error that names that step ("failed to create request", "failed to send
\* request", "failed to parse response"); the process does not end and the
\* caller goes on with the next task or user story.
C16_StepFailuresAreReturned ==
    /\ BuildFails =>
          /\ pc \in {"loop", "done"}
          /\ requests = <<>>
          /\ Len(returns) = i - 1
          /\ \A n \in 1..Len(returns) : returns[n] = Return("User Story", n, 0, ErrBuild)
          /\ returns # <<>> => err = ErrBuild
    /\ resp.transport =>
          /\ err = ErrSend
          /\ ReturnedAndWentOn
    /\ (ParentAnswered /\ resp.sent /\ ~resp.transport /\ ~resp.body.decodable) =>
          /\ err = ErrParse
          /\ ReturnedAndWentOn

\* The request for the second user story's task could not be sent, after the
\* first user story's create call had failed.
C16_Witness ==
    /\ ChildAnswered /\ AnsweredStory = 2
    /\ resp.transport
    /\ StoryFailed(1) /\ ParentRequests(1) # {}
    /\ pc = "tasks"


----------------------------------------------------------------------------
\* The error-level entries of the log with the given message and record name.
ErrorLogs(msg, name) ==
    {n \in 1..Len(logs) :
        logs[n].level = "error" /\ logs[n].msg = msg /\ logs[n].name = name}

\* C17: a failed create call leaves exactly one error-level log entry with the
\* record's name and a successful one leaves none, for user stories and for
\* tasks; a task that was never attempted has none.  A 401 answer to a user
\* story's request gives no task request, one failure entry for that user story,
\* and main goes on with the next user story.
C17_OneErrorLogPerFailure ==
    /\ \A k \in Stories :
          /\ Cardinality(ErrorLogs("Failed to create user story", userStories[k].Name))
                = IF StoryFailed(k) THEN 1 ELSE 0
          /\ \A t \in TasksOf(k) :
                Cardinality(ErrorLogs("Failed to create task", userStories[k].Tasks[t].Name))
                   = IF TaskFailed(k, t) THEN 1 ELSE 0
    /\ (ParentAnswered /\ resp.sent /\ ~resp.transport /\ resp.status = 401) =>
          /\ ChildRequests(AnsweredStory) = {}
          /\ Cardinality(ErrorLogs("Failed to create user story",
                                   userStories[AnsweredStory].Name)) = 1
          /\ pc \in {"loop", "done"}
          /\ i = AnsweredStory + 1


----------------------------------------------------------------------------
\* Request b is for a later record than request a: a later user story, or a
\* later task of the same user story (the user story's own request counts as
\* task 0).
Later(a, b) == a.us < b.us \/ (a.us = b.us /\ a.task < b.task)

\* A call is waiting for client.Do to return.
InFlight == pc \in {"us_wait", "task_wait"}

\* C19: requests are issued one at a time and in input order.  A step that
\* issues a request issues one, while no call is waiting for an answer; the
\* request is for a later record than every request before it; a task's
\* request follows the request of its own user story; and when a user story's
\* request is issued, every createTask call and every createUserStory call for
\* the records before it has returned.
C19_SequentialInOrder ==
    [][requests' # requests =>
          /\ ~InFlight
          /\ InFlight'
          /\ Len(requests') = Len(requests) + 1
          /\ \A n \in 1..Len(requests) :
                requests'[n] = requests[n] /\ Later(requests[n], requests'[Len(requests')])
          /\ LET new == requests'[Len(requests')]
             IN  /\ new.kind = "Task" =>
                       /\ new.task >= 1
                       /\ \E n \in 1..Len(requests) :
                             requests[n].kind = "User Story" /\ requests[n].us = new.us
                       /\ \A t \in 1..(new.task - 1) : TaskReturns(new.us, t) # {}
                 /\ new.kind = "User Story" =>
                       /\ new.task = 0
                       /\ \A k \in 1..(new.us - 1) :
                             /\ \E n \in 1..Len(returns) :
                                   returns[n].kind = "User Story" /\ returns[n].us = k
                             /\ storyIDs[k] # <<>> =>
                                   \A t \in TasksOf(k) : TaskReturns(k, t) # {}
                       /\ \A n \in 1..Len(requests) :
                             requests[n].kind = "Task" =>
                                 TaskReturns(requests[n].us, requests[n].task) # {}
    ]_vars

\* Five requests have been issued, for two user stories and their three
\* tasks, and the last one is waiting for its answer.
C19_Witness ==
    /\ Len(requests) = 5
    /\ requests[4].kind = "User Story" /\ requests[4].us = 2
    /\ Cardinality(ChildRequests(1)) = 2
    /\ InFlight


----------------------------------------------------------------------------
\* createUserStory has returned for story k, with or without an error.
StoryReturns(k) ==
    {n \in 1..Len(returns) : returns[n].kind = "User Story" /\ returns[n].us = k}

\* C20: once the id of a user story has been extracted from its response,
\* createUserStory returns no error whatever its tasks do: the user story is
\* never logged as failed, its "created successfully" entry stays, its return
\* (there is one once main is past it) carries no error, and each failed task
\* has its own error entry and nothing else.
C20_ChildFailuresLeaveParentCreated ==
    \A k \in CreatedStories :
        /\ ~StoryFailed(k)
        /\ ErrorLogs("Failed to create user story", userStories[k].Name) = {}
        /\ SuccessLogged("User story created successfully", userStories[k].Name)
        /\ Cardinality(StoryReturns(k)) = IF k < i THEN 1 ELSE 0
        /\ \A t \in TasksOf(k) :
              Cardinality(ErrorLogs("Failed to create task", userStories[k].Tasks[t].Name))
                 = IF TaskFailed(k, t) THEN 1 ELSE 0

\* A finished run with a created user story whose two tasks both failed.
C20_Witness ==
    /\ pc = "done"
    /\ \E k \in CreatedStories :
          /\ Len(userStories[k].Tasks) = 2
          /\ \A t \in TasksOf(k) : TaskFailed(k, t)
          /\ StoryReturns(k) # {}

====
